---- MODULE Spec2Model ----
(***************************************************************************)
(* The denomination registry and unit conversion of types/denom.go.        *)
(*                                                                         *)
(* The registry is the pair of package-level maps denomUnits and           *)
(* baseDenom.  Every exported function that a property below talks about   *)
(* is an operator computed as the Go code computes it, and an action that  *)
(* applies it to the current registry and records the call in `last`.      *)
(*                                                                         *)
(* types.Dec is a fixed-point decimal: a big integer counting units of     *)
(* 10^-18.  Mul and Quo round the last kept digit half-to-even, and        *)
(* TruncateInt drops the fraction.  The model keeps that arithmetic and     *)
(* scales the number of fractional digits down to PrecisionDigits, so a    *)
(* Dec value is the integer  value * Precision.                            *)
(*                                                                         *)
(* Amounts and multipliers are nonnegative, as coins and unit multipliers  *)
(* are.  All values stay far below the 315-bit ceiling at which Mul and    *)
(* Quo panic with an overflow, so the only panic that occurs is Quo's      *)
(* division by zero.                                                       *)
(***************************************************************************)
EXTENDS Integers, FiniteSets, TLC

VARIABLES denomUnits, baseDenom, last, pc, call

vars == <<denomUnits, baseDenom, last, pc, call>>

(* ------------------------------ bounds -------------------------------- *)

\* Fractional digits kept by a Dec in the model (the library keeps 18).
PrecisionDigits == 1

\* Largest integer amount of an input coin.
MaxAmount == 2

(* --------------------------- decimal engine --------------------------- *)

Precision == 10 ^ PrecisionDigits

ZeroDec == 0

OneDec == Precision

\* One unit in the last place above two: the smallest multiplier above 2.
TwoUlpDec == 2 * Precision + 1

NewDecFromInt(i) == i * Precision

\* chopPrecisionAndRound: drop PrecisionDigits digits, half-to-even.
ChopPrecisionAndRound(x) ==
    LET ax  == IF x < 0 THEN 0 - x ELSE x
        quo == ax \div Precision
        rem == ax % Precision
        up  == IF 2 * rem < Precision THEN quo
               ELSE IF 2 * rem > Precision THEN quo + 1
               ELSE IF quo % 2 = 0 THEN quo ELSE quo + 1
    IN  IF x < 0 THEN 0 - up ELSE up

Mul(x, y) == ChopPrecisionAndRound(x * y)

\* Quo divides by a nonzero y; big.Int division by zero panics.
QuoPanics(y) == y = 0

Quo(x, y) == ChopPrecisionAndRound((x * Precision * Precision) \div y)

TruncateInt(x) == x \div Precision

DecEqual(x, y) == x = y

(* ------------------------------ names --------------------------------- *)

\* Names that match the denomination grammar, and names that do not:
\* "u" is too short, "" is the empty string.
ValidDenoms == {"atom", "uatom"}

InvalidDenoms == {"u", ""}

Denoms == ValidDenoms \cup InvalidDenoms

Units == {ZeroDec, OneDec, TwoUlpDec}

Amounts == 0 .. MaxAmount

\* Decimal amounts in steps of one half.
DecAmounts == {i * (Precision \div 2) : i \in 0 .. MaxAmount}

ValidateDenom(denom) == denom \in ValidDenoms

(* ----------------------------- registry ------------------------------- *)

MapPut(m, k, v) == [x \in DOMAIN m \cup {k} |-> IF x = k THEN v ELSE m[x]]

EmptyMap == [x \in {} |-> 0]

\* A Go map read: the zero value for a missing key.
BaseDenomAt(denom) == IF denom \in DOMAIN baseDenom THEN baseDenom[denom] ELSE ""

\* RegisterDenom writing the base's multiplier before the denom's.
RegisterDenomDenomLast(denom, unit, bDenom, bUnit) ==
    IF ~ValidateDenom(denom)
    THEN [units |-> denomUnits, bases |-> baseDenom, err |-> "InvalidDenom"]
    ELSE IF denom \in DOMAIN denomUnits
    THEN [units |-> denomUnits, bases |-> baseDenom, err |-> "AlreadyRegistered"]
    ELSE [units |-> MapPut(MapPut(denomUnits, bDenom, bUnit), denom, unit),
          bases |-> MapPut(MapPut(baseDenom, denom, bDenom), bDenom, bDenom),
          err   |-> "nil"]

\* RegisterDenom without the write baseDenom[bDenom] = bDenom.
RegisterDenomNoSelfLink(denom, unit, bDenom, bUnit) ==
    IF ~ValidateDenom(denom)
    THEN [units |-> denomUnits, bases |-> baseDenom, err |-> "InvalidDenom"]
    ELSE IF denom \in DOMAIN denomUnits
    THEN [units |-> denomUnits, bases |-> baseDenom, err |-> "AlreadyRegistered"]
    ELSE [units |-> MapPut(MapPut(denomUnits, denom, unit), bDenom, bUnit),
          bases |-> MapPut(baseDenom, denom, bDenom),
          err   |-> "nil"]

\* RegisterDenom: the maps it leaves and the error it returns.
RegisterDenom(denom, unit, bDenom, bUnit) ==
    IF ~ValidateDenom(denom)
    THEN [units |-> denomUnits, bases |-> baseDenom, err |-> "InvalidDenom"]
    ELSE IF denom \in DOMAIN denomUnits
    THEN [units |-> denomUnits, bases |-> baseDenom, err |-> "AlreadyRegistered"]
    ELSE [units |-> MapPut(MapPut(denomUnits, denom, unit), bDenom, bUnit),
          bases |-> MapPut(MapPut(baseDenom, denom, bDenom), bDenom, bDenom),
          err   |-> "nil"]

\* GetDenomUnit on the map `units`.
GetDenomUnitIn(units, denom) ==
    IF ~ValidateDenom(denom) THEN [unit |-> ZeroDec, ok |-> FALSE]
    ELSE IF denom \notin DOMAIN units THEN [unit |-> ZeroDec, ok |-> FALSE]
    ELSE [unit |-> units[denom], ok |-> TRUE]

GetDenomUnit(denom) == GetDenomUnitIn(denomUnits, denom)

GetBaseDenom(denom) ==
    IF BaseDenomAt(denom) = "" THEN [base |-> "", err |-> "NotRegistered"]
    ELSE [base |-> BaseDenomAt(denom), err |-> "nil"]

(* ----------------------------- converter ------------------------------ *)

\* types.Coin{} and types.DecCoin{}: the zero value returned beside an error.
ZeroCoin == [denom |-> "", amount |-> 0]

NewCoin(denom, amount) == [denom |-> denom, amount |-> amount]

\* What a call ends with: a value (err = "nil"), an error value, or a panic.
Returned(coin) == [out |-> "return", coin |-> coin, err |-> "nil"]

Failed(err) == [out |-> "return", coin |-> ZeroCoin, err |-> err]

Panicked == [out |-> "panic", coin |-> ZeroCoin, err |-> "nil"]

\* ConvertCoin looking up the destination before the source.
ConvertCoinDestFirst(coin, denom) ==
    IF ~ValidateDenom(denom) THEN Failed("InvalidDenom")
    ELSE LET dst == GetDenomUnit(denom) IN
         IF ~dst.ok THEN Failed("DestNotRegistered")
         ELSE LET src == GetDenomUnit(coin.denom) IN
              IF ~src.ok THEN Failed("SourceNotRegistered")
              ELSE IF DecEqual(src.unit, dst.unit)
              THEN Returned(NewCoin(denom, coin.amount))
              ELSE IF QuoPanics(dst.unit) THEN Panicked
              ELSE Returned(NewCoin(denom,
                       TruncateInt(Quo(Mul(NewDecFromInt(coin.amount), src.unit),
                                       dst.unit))))

\* ConvertCoin labelling the converted amount with the source name.
ConvertCoinKeepsLabel(coin, denom) ==
    IF ~ValidateDenom(denom) THEN Failed("InvalidDenom")
    ELSE LET src == GetDenomUnit(coin.denom) IN
         IF ~src.ok THEN Failed("SourceNotRegistered")
         ELSE LET dst == GetDenomUnit(denom) IN
              IF ~dst.ok THEN Failed("DestNotRegistered")
              ELSE IF DecEqual(src.unit, dst.unit)
              THEN Returned(NewCoin(denom, coin.amount))
              ELSE IF QuoPanics(dst.unit) THEN Panicked
              ELSE Returned(NewCoin(coin.denom,
                       TruncateInt(Quo(Mul(NewDecFromInt(coin.amount), src.unit),
                                       dst.unit))))

ConvertCoin(coin, denom) ==
    IF ~ValidateDenom(denom) THEN Failed("InvalidDenom")
    ELSE LET src == GetDenomUnit(coin.denom) IN
         IF ~src.ok THEN Failed("SourceNotRegistered")
         ELSE LET dst == GetDenomUnit(denom) IN
              IF ~dst.ok THEN Failed("DestNotRegistered")
              ELSE IF DecEqual(src.unit, dst.unit)
              THEN Returned(NewCoin(denom, coin.amount))
              ELSE IF QuoPanics(dst.unit) THEN Panicked
              ELSE Returned(NewCoin(denom,
                       TruncateInt(Quo(Mul(NewDecFromInt(coin.amount), src.unit),
                                       dst.unit))))

ConvertDecCoin(coin, denom) ==
    IF ~ValidateDenom(denom) THEN Failed("InvalidDenom")
    ELSE LET src == GetDenomUnit(coin.denom) IN
         IF ~src.ok THEN Failed("SourceNotRegistered")
         ELSE LET dst == GetDenomUnit(denom) IN
              IF ~dst.ok THEN Failed("DestNotRegistered")
              ELSE IF DecEqual(src.unit, dst.unit)
              THEN Returned(NewCoin(denom, coin.amount))
              ELSE IF QuoPanics(dst.unit) THEN Panicked
              ELSE Returned(NewCoin(denom,
                       Quo(Mul(coin.amount, src.unit), dst.unit)))

(* ----------------------------- normalizer ----------------------------- *)

NormalizeCoin(coin) ==
    LET b == GetBaseDenom(coin.denom) IN
    IF b.err # "nil" THEN Returned(coin)
    ELSE LET r == ConvertCoin(coin, b.base) IN
         IF r.out = "panic" THEN Panicked
         ELSE IF r.err # "nil" THEN Returned(coin)
         ELSE Returned(r.coin)

NormalizeDecCoin(coin) ==
    LET b == GetBaseDenom(coin.denom) IN
    IF b.err # "nil" THEN Returned(coin)
    ELSE LET r == ConvertDecCoin(coin, b.base) IN
         IF r.out = "panic" THEN Panicked
         ELSE IF r.err # "nil" THEN Returned(coin)
         ELSE Returned(r.coin)

(* ------------------------------ actions ------------------------------- *)

Coins == [denom : Denoms, amount : Amounts]

DecCoins == [denom : Denoms, amount : DecAmounts]

Idle == [g \in {1, 2} |-> "idle"]

Init ==
    /\ denomUnits = EmptyMap
    /\ baseDenom = EmptyMap
    /\ last = [op |-> "none"]
    /\ pc = Idle
    /\ call = [g \in {1, 2} |-> [op |-> "none"]]

RegisterDenomCall ==
    \E denom \in Denoms, unit \in Units, bDenom \in Denoms, bUnit \in Units :
        LET r == RegisterDenom(denom, unit, bDenom, bUnit) IN
        /\ denomUnits' = r.units
        /\ baseDenom' = r.bases
        /\ last' = [op |-> "RegisterDenom", denom |-> denom, unit |-> unit,
                    bDenom |-> bDenom, bUnit |-> bUnit, err |-> r.err]
        /\ UNCHANGED <<pc, call>>

GetDenomUnitCall ==
    \E denom \in Denoms :
        /\ last' = [op |-> "GetDenomUnit", denom |-> denom, res |-> GetDenomUnit(denom)]
        /\ UNCHANGED <<denomUnits, baseDenom, pc, call>>

GetBaseDenomCall ==
    \E denom \in Denoms :
        /\ last' = [op |-> "GetBaseDenom", denom |-> denom, res |-> GetBaseDenom(denom)]
        /\ UNCHANGED <<denomUnits, baseDenom, pc, call>>

ConvertCoinCall ==
    \E coin \in Coins, denom \in Denoms :
        /\ last' = [op |-> "ConvertCoin", coin |-> coin, denom |-> denom,
                    res |-> ConvertCoin(coin, denom)]
        /\ UNCHANGED <<denomUnits, baseDenom, pc, call>>

ConvertDecCoinCall ==
    \E coin \in DecCoins, denom \in Denoms :
        /\ last' = [op |-> "ConvertDecCoin", coin |-> coin, denom |-> denom,
                    res |-> ConvertDecCoin(coin, denom)]
        /\ UNCHANGED <<denomUnits, baseDenom, pc, call>>

NormalizeCoinCall ==
    \E coin \in Coins :
        /\ last' = [op |-> "NormalizeCoin", coin |-> coin, res |-> NormalizeCoin(coin)]
        /\ UNCHANGED <<denomUnits, baseDenom, pc, call>>

NormalizeDecCoinCall ==
    \E coin \in DecCoins :
        /\ last' = [op |-> "NormalizeDecCoin", coin |-> coin,
                    res |-> NormalizeDecCoin(coin)]
        /\ UNCHANGED <<denomUnits, baseDenom, pc, call>>

Next ==
    \/ RegisterDenomCall
    \/ GetDenomUnitCall
    \/ GetBaseDenomCall
    \/ ConvertCoinCall
    \/ ConvertDecCoinCall
    \/ NormalizeCoinCall
    \/ NormalizeDecCoinCall

Spec == Init /\ [][Next]_vars

(* ----------------- RegisterDenom run by two goroutines ----------------- *)
(* The maps are package-level variables with no lock, so two goroutines    *)
(* calling RegisterDenom interleave at its statements.  pc[g] is the line  *)
(* goroutine g executes next.  A map access that overlaps another          *)
(* goroutine's write of the same map is a data race: the access may go     *)
(* through, or the runtime may stop the process with "concurrent map       *)
(* writes" / "concurrent map read and map write".                          *)

Goroutines == {1, 2}

Other(g) == 3 - g

ConcUnits == {OneDec, TwoUlpDec}

Goto(g, line) == pc' = [pc EXCEPT ![g] = line]

Return(g, err) ==
    /\ pc' = [pc EXCEPT ![g] = "done"]
    /\ call' = [call EXCEPT ![g].err = err]

\* The other goroutine is about to write the map this statement accesses.
RacesOnUnits(g) == pc[Other(g)] \in {"l28", "l29"}

RacesOnBases(g) == pc[Other(g)] \in {"l30", "l31"}

Crashed == [g \in Goroutines |-> "crashed"]

GoRegisterDenom(g) ==
    /\ pc[g] = "idle"
    /\ \E denom \in Denoms, bDenom \in ValidDenoms, bUnit \in ConcUnits :
           call' = [call EXCEPT ![g] =
                       [op |-> "RegisterDenom", denom |-> denom, unit |-> OneDec,
                        bDenom |-> bDenom, bUnit |-> bUnit, err |-> "running"]]
    /\ Goto(g, "l20")
    /\ UNCHANGED <<denomUnits, baseDenom, last>>

Line20(g) ==
    /\ pc[g] = "l20"
    /\ IF ~ValidateDenom(call[g].denom)
       THEN Return(g, "InvalidDenom")
       ELSE Goto(g, "l24") /\ UNCHANGED call
    /\ UNCHANGED <<denomUnits, baseDenom, last>>

Line24(g) ==
    /\ pc[g] = "l24"
    /\ IF call[g].denom \in DOMAIN denomUnits
       THEN Return(g, "AlreadyRegistered")
       ELSE Goto(g, "l28") /\ UNCHANGED call
    /\ UNCHANGED <<denomUnits, baseDenom, last>>

Line28(g) ==
    /\ pc[g] = "l28"
    /\ denomUnits' = MapPut(denomUnits, call[g].denom, call[g].unit)
    /\ Goto(g, "l29")
    /\ UNCHANGED <<baseDenom, last, call>>

Line29(g) ==
    /\ pc[g] = "l29"
    /\ denomUnits' = MapPut(denomUnits, call[g].bDenom, call[g].bUnit)
    /\ Goto(g, "l30")
    /\ UNCHANGED <<baseDenom, last, call>>

Line30(g) ==
    /\ pc[g] = "l30"
    /\ baseDenom' = MapPut(baseDenom, call[g].denom, call[g].bDenom)
    /\ Goto(g, "l31")
    /\ UNCHANGED <<denomUnits, last, call>>

Line31(g) ==
    /\ pc[g] = "l31"
    /\ baseDenom' = MapPut(baseDenom, call[g].bDenom, call[g].bDenom)
    /\ Goto(g, "l32")
    /\ UNCHANGED <<denomUnits, last, call>>

Line32(g) ==
    /\ pc[g] = "l32"
    /\ Return(g, "nil")
    /\ UNCHANGED <<denomUnits, baseDenom, last>>

\* The runtime detects the racing map access and stops the process.
FatalMapRace(g) ==
    /\ \/ pc[g] \in {"l24", "l28", "l29"} /\ RacesOnUnits(g)
       \/ pc[g] \in {"l30", "l31"} /\ RacesOnBases(g)
    /\ pc' = Crashed
    /\ UNCHANGED <<denomUnits, baseDenom, last, call>>

NextConc ==
    \E g \in Goroutines :
        \/ GoRegisterDenom(g)
        \/ Line20(g)
        \/ Line24(g)
        \/ Line28(g)
        \/ Line29(g)
        \/ Line30(g)
        \/ Line31(g)
        \/ Line32(g)
        \/ FatalMapRace(g)

SpecConc == Init /\ [][NextConc]_vars

(* ----------------------------- properties ----------------------------- *)

\* A multiplier is recorded for the name.
Recorded(denom) == denom \in DOMAIN denomUnits

\* A multiplier that GetDenomUnit hands out: recorded under a valid name.
Retrievable(denom) == ValidateDenom(denom) /\ Recorded(denom)

RegistryUnchanged == denomUnits' = denomUnits /\ baseDenom' = baseDenom

\* C1: RegisterDenom of a name that already has a multiplier recorded returns
\* an error and leaves both maps as they were, and GetDenomUnit of the name
\* afterwards returns the multiplier recorded before the call.
C1_DuplicateRejected ==
    [][(last'.op = "RegisterDenom" /\ Recorded(last'.denom))
          => /\ last'.err # "nil"
             /\ RegistryUnchanged
             /\ GetDenomUnitIn(denomUnits', last'.denom)
                  = [unit |-> denomUnits[last'.denom], ok |-> TRUE]]_vars

\* C2 as stated: after a successful RegisterDenom the multiplier of denom is
\* unit, the multiplier of bDenom is bUnit, and both names link to bDenom,
\* also when denom = bDenom and unit # bUnit.
C2_InstallsBothAsGiven ==
    (last.op = "RegisterDenom" /\ last.err = "nil")
        => /\ denomUnits[last.denom] = last.unit
           /\ denomUnits[last.bDenom] = last.bUnit
           /\ baseDenom[last.denom] = last.bDenom
           /\ baseDenom[last.bDenom] = last.bDenom

\* C2 amended: after a successful RegisterDenom the multiplier of bDenom is
\* bUnit, the multiplier of denom is unit when denom # bDenom (when the two
\* names are the same the later write of bUnit stands), and both names link
\* to bDenom.
C2_InstallsBaseLast ==
    (last.op = "RegisterDenom" /\ last.err = "nil")
        => /\ Recorded(last.denom) /\ Recorded(last.bDenom)
           /\ denomUnits[last.bDenom] = last.bUnit
           /\ denomUnits[last.denom]
                = (IF last.denom = last.bDenom THEN last.bUnit ELSE last.unit)
           /\ BaseDenomAt(last.denom) = last.bDenom
           /\ BaseDenomAt(last.bDenom) = last.bDenom

C2_Witness ==
    /\ last.op = "RegisterDenom" /\ last.err = "nil"
    /\ last.denom = last.bDenom /\ last.unit # last.bUnit
    /\ denomUnits[last.denom] = last.bUnit

\* C3: converting a coin to its own denomination succeeds and returns the
\* coin unchanged, for every name that has a multiplier recorded.
C3_SelfConversionIsIdentity ==
    (last.op = "ConvertCoin" /\ last.coin.denom = last.denom /\ Recorded(last.denom))
        => last.res = Returned(last.coin)

\* C4: between two registered names with different multipliers (the
\* destination's not zero, so that the quotient exists) ConvertCoin returns
\* the integer q with q <= a * unit_src / unit_dst < q + 1, labelled with the
\* destination name.
C4_TruncatesExactQuotient ==
    (/\ last.op = "ConvertCoin"
     /\ Retrievable(last.coin.denom) /\ Retrievable(last.denom)
     /\ denomUnits[last.coin.denom] # denomUnits[last.denom]
     /\ denomUnits[last.denom] # ZeroDec)
        => LET a  == last.coin.amount
               us == denomUnits[last.coin.denom]
               ud == denomUnits[last.denom]
               q  == last.res.coin.amount
           IN  /\ last.res.out = "return" /\ last.res.err = "nil"
               /\ last.res.coin.denom = last.denom
               /\ q * ud <= a * us
               /\ a * us < (q + 1) * ud

\* C5: ConvertCoin leaves the registry unchanged; an invalid target name is
\* rejected first, then a source without a retrievable multiplier gives the
\* source error, then a target without one gives the destination error.
C5_ErrorsInOrderRegistryUntouched ==
    [][last'.op = "ConvertCoin"
          => /\ RegistryUnchanged
             /\ IF ~ValidateDenom(last'.denom)
                THEN last'.res = Failed("InvalidDenom")
                ELSE IF ~Retrievable(last'.coin.denom)
                THEN last'.res = Failed("SourceNotRegistered")
                ELSE IF ~Retrievable(last'.denom)
                THEN last'.res = Failed("DestNotRegistered")
                ELSE last'.res.err = "nil"]_vars

C5_Witness ==
    /\ last.op = "ConvertCoin"
    /\ Retrievable(last.coin.denom) /\ ValidateDenom(last.denom)
    /\ last.res = Failed("DestNotRegistered")

\* The three cases of NormalizeCoin, for a call that returns: the coin
\* unchanged when the name has no base link, the coin unchanged when the link
\* exists and ConvertCoin to the base fails, ConvertCoin's coin otherwise.
NormalizeCoinCases ==
    (last.op = "NormalizeCoin" /\ last.res.out = "return")
        => LET c    == last.coin
               base == BaseDenomAt(c.denom)
           IN  /\ last.res.err = "nil"
               /\ base = "" => last.res = Returned(c)
               /\ (base # "" /\ ~(ValidateDenom(base) /\ Retrievable(c.denom)))
                     => last.res = Returned(c)
               /\ (base # "" /\ ValidateDenom(base) /\ Retrievable(c.denom))
                     => last.res = ConvertCoin(c, base)

\* C6: NormalizeCoin always returns a coin and never an error: the coin
\* unchanged when the name has no base link, also when the link exists and
\* ConvertCoin to the base fails, and the result of ConvertCoin otherwise.
C6_NormalizeAlwaysReturns ==
    /\ NormalizeCoinCases
    /\ last.op = "NormalizeCoin" => last.res.out = "return"

\* C7: ConvertCoin, ConvertDecCoin, NormalizeCoin and NormalizeDecCoin end by
\* returning, never by a panic.
C7_NeverPanics ==
    last.op \in {"ConvertCoin", "ConvertDecCoin", "NormalizeCoin", "NormalizeDecCoin"}
        => last.res.out # "panic"

\* C8: whenever GetBaseDenom(d) succeeds with b, GetBaseDenom(b) succeeds
\* with b.
C8_BaseLinksToItself ==
    \A d \in Denoms :
        GetBaseDenom(d).err = "nil"
            => GetBaseDenom(GetBaseDenom(d).base)
                 = [base |-> GetBaseDenom(d).base, err |-> "nil"]

\* "atom" was registered with base "u" and was later named as the base of
\* "uatom": a name registered as a non-base has become a base.
C8_Witness ==
    /\ last.op = "GetBaseDenom" /\ last.denom = "uatom"
    /\ last.res = [base |-> "atom", err |-> "nil"]
    /\ "u" \in DOMAIN baseDenom
    /\ BaseDenomAt("atom") = "atom"

\* C9: of two concurrent RegisterDenom calls for the same name that was not
\* registered before, at most one returns nil.
C9_AtMostOneRegistration ==
    ~(/\ pc[1] = "done" /\ pc[2] = "done"
      /\ call[1].denom = call[2].denom
      /\ call[1].err = "nil" /\ call[2].err = "nil")

\* C10: a coin returned by NormalizeCoin is returned unchanged by
\* NormalizeCoin, and a coin returned by NormalizeDecCoin is returned
\* unchanged by NormalizeDecCoin.
C10_NormalizeIdempotent ==
    /\ (last.op = "NormalizeCoin" /\ last.res.out = "return")
          => NormalizeCoin(last.res.coin) = Returned(last.res.coin)
    /\ (last.op = "NormalizeDecCoin" /\ last.res.out = "return")
          => NormalizeDecCoin(last.res.coin) = Returned(last.res.coin)

C10_Witness ==
    /\ last.op = "NormalizeCoin" /\ last.res.out = "return"
    /\ last.res.coin.denom # last.coin.denom
    /\ last.res.coin.amount # last.coin.amount

====
